---- MODULE Spec2Model ----
(***************************************************************************)
(* A model of lucide-cpp: the icon registry (lucideicon.hpp/.cpp) and the  *)
(* wrapper, collection and theme layers on top of it (src/iconwrapper).    *)
(* std::string values are TLA+ strings, so the SVG text is built by        *)
(* concatenation exactly as Icon::buildSVG streams it.                     *)
(***************************************************************************)
EXTENDS Integers, Sequences, FiniteSets, TLC

VARIABLES
    heap,       \* the Icon objects allocated by make_shared, in allocation order
    icons_,     \* IconRegistry::icons_ : name -> handle (an index into heap)
    regLog,     \* history: the registerIcon calls made so far, <<name, pathData>>
    iconNames_, \* IconCollection::iconNames_
    wrappers,   \* the IconWrapper objects: id -> [alive, icon_, config_]
    written,    \* history: per wrapper, the last colour written to each channel
    theme,      \* the IconTheme object: [name_, themeConfig_]
    callerConfig, \* an IconConfig struct owned by a caller
    ignored,    \* history: the names whose latest addIcon / addIcons was skipped
    last        \* the last call made: [op, args, ret, threw]

vars == <<heap, icons_, regLog, iconNames_, wrappers, written, theme, callerConfig, ignored, last>>

-----------------------------------------------------------------------------
(* Bounds and input sets *)

MaxRegs == 3
MaxNames == 2
MaxColl == 2

Names == {"home", "ghost-icon"}
PathDatas == {"", "<path d=\"M3 9l9-7\"/>"}
Sizes == {16, 24, 32}
WSizes == {16, 24}
WStrokeWidths == {2, 3}
WColors == {"currentColor", "none", "#ff0000"}
ThemeColors == {"", "currentColor", "none", "#ffffff"}
ThemeSizes == {24, 32}
ThemeStrokeWidths == {2, 3}
ConfigSizes == {-1, 0, 1, 16, 24, 32, 48, 64}
ConfigColors == {"", "currentColor", "none", "red", "#ff0000", "#00ff00", "#ffffff", "rgb(0,0,0)"}
Classes == {"", "icon"}
Styles == {"", "opacity:0.5"}
WIds == {1, 2}

null == 0
NoCall == [called |-> FALSE]

RECURSIVE SeqsUpTo(_, _)
SeqsUpTo(S, n) ==
    IF n = 0 THEN {<<>>}
    ELSE LET shorter == SeqsUpTo(S, n - 1)
         IN  shorter \cup {Append(q, x) : q \in {r \in shorter : Len(r) = n - 1}, x \in S}

-----------------------------------------------------------------------------
(* struct IconConfig *)

IconConfig ==
    [width |-> 24, height |-> 24, size |-> 24,
     stroke |-> "currentColor", strokeWidth |-> 2,
     strokeLinecap |-> "round", strokeLinejoin |-> "round",
     fill |-> "none", color |-> "currentColor",
     className |-> "", style |-> ""]

\* A setSize that leaves the size field behind.
setSizeWidthHeight(config, s) == [config EXCEPT !.width = s, !.height = s]

setSize(config, s) == [config EXCEPT !.size = s, !.width = s, !.height = s]

setColor(config, c) == [config EXCEPT !.color = c, !.stroke = c]

\* Configurations handed to generateSVG / renderMultiple: fields set directly
\* on the struct by the caller.
Configs ==
    {[IconConfig EXCEPT !.width = w, !.height = h] : w \in Sizes, h \in Sizes}
    \cup {[IconConfig EXCEPT !.className = "icon", !.style = "opacity:0.5"],
          [IconConfig EXCEPT !.stroke = "#ff0000", !.fill = "#ffffff", !.strokeWidth = 3]}

\* Base configurations handed to applyTheme: each themed field at its default
\* or not, and two with the unthemed fields set.
BaseConfigs ==
    {[IconConfig EXCEPT !.stroke = st, !.fill = fi, !.strokeWidth = sw,
                        !.width = w, !.height = h] :
        st \in {"currentColor", "#ff0000"}, fi \in {"none", "#ff0000"},
        sw \in {2, 3}, w \in {24, 16}, h \in {24, 16}}
    \cup {[IconConfig EXCEPT !.className = "icon", !.style = "opacity:0.5",
                             !.strokeLinecap = "butt", !.strokeLinejoin = "miter",
                             !.size = 48, !.color = "#ff0000"],
          [IconConfig EXCEPT !.className = "icon", !.style = "opacity:0.5",
                             !.strokeLinecap = "butt", !.strokeLinejoin = "miter",
                             !.size = 48, !.color = "#ff0000", !.stroke = "#ff0000",
                             !.width = 48]}

BatchConfigs ==
    {IconConfig,
     [IconConfig EXCEPT !.width = 32, !.height = 16, !.className = "icon"],
     setColor(setSize(IconConfig, 16), "#ff0000")}

-----------------------------------------------------------------------------
(* class Icon *)

Icon(name, pathData) == [name_ |-> name, pathData_ |-> pathData]

getName(icon) == icon.name_

getPathData(icon) == icon.pathData_

\* operator<< of an int on a stringstream: decimal formatting.
FormatInt(n) == ToString(n)

\* A serializer that scales the viewBox with the requested size.
ViewBoxAttrScaled(config) ==
    " viewBox=\"0 0 " \o FormatInt(config.width) \o " " \o FormatInt(config.height) \o "\""

ViewBoxAttr(config) == " viewBox=\"0 0 24 24\""

buildSVG(icon, config) ==
    LET s1 == "<svg"
        s2 == s1 \o " xmlns=\"http://www.w3.org/2000/svg\""
        s3 == s2 \o " width=\"" \o FormatInt(config.width) \o "\""
        s4 == s3 \o " height=\"" \o FormatInt(config.height) \o "\""
        s5 == s4 \o ViewBoxAttr(config)
        s6 == s5 \o " fill=\"" \o config.fill \o "\""
        s7 == s6 \o " stroke=\"" \o config.stroke \o "\""
        s8 == s7 \o " stroke-width=\"" \o FormatInt(config.strokeWidth) \o "\""
        s9 == s8 \o " stroke-linecap=\"" \o config.strokeLinecap \o "\""
        s10 == s9 \o " stroke-linejoin=\"" \o config.strokeLinejoin \o "\""
        s11 == IF config.className # ""
               THEN s10 \o " class=\"" \o config.className \o "\"" ELSE s10
        s12 == IF config.style # ""
               THEN s11 \o " style=\"" \o config.style \o "\"" ELSE s11
    IN  s12 \o ">" \o icon.pathData_ \o "</svg>"

toSVG(icon, config) == buildSVG(icon, config)

-----------------------------------------------------------------------------
(* class IconRegistry *)

\* icons_.find(name) and the test against end(), then it->second
getIcon(name) == IF name \in DOMAIN icons_ THEN icons_[name] ELSE null

\* A lookup that reports every name as present.
hasIconAlways(name) == TRUE

hasIcon(name) == name \in DOMAIN icons_

\* A lookup that renders a placeholder icon for an unknown name.
generateSVGPlaceholder(name, config) ==
    LET icon == getIcon(name)
    IN  IF icon # null THEN toSVG(heap[icon], config) ELSE toSVG(Icon(name, ""), config)

generateSVG(name, config) ==
    LET icon == getIcon(name)
    IN  IF icon # null THEN toSVG(heap[icon], config) ELSE ""

\* std::unordered_map::emplace: keeps the entry a key already has.
MapEmplace(m, k, v) == [x \in DOMAIN m \cup {k} |-> IF x \in DOMAIN m THEN m[x] ELSE v]

\* icons_[name] = handle : std::unordered_map::operator[] then assignment
MapAssign(m, k, v) == [x \in DOMAIN m \cup {k} |-> IF x = k THEN v ELSE m[x]]

Call(op, args, ret) == [op |-> op, args |-> args, ret |-> ret, threw |-> FALSE]

\* A registration that also appends the name to a collection that skipped it.
IconRegistry_registerIconNotifying(name, pathData) ==
    /\ Len(regLog) < MaxRegs
    /\ heap' = Append(heap, Icon(name, pathData))
    /\ icons_' = MapAssign(icons_, name, Len(heap) + 1)
    /\ regLog' = Append(regLog, <<name, pathData>>)
    /\ iconNames_' = IF name \in ignored THEN Append(iconNames_, name) ELSE iconNames_
    /\ last' = Call("registerIcon", <<name, pathData>>, "void")
    /\ UNCHANGED <<wrappers, written, theme, callerConfig, ignored>>

\* A registration that overwrites the Icon an existing entry points to.
IconRegistry_registerIconInPlace(name, pathData) ==
    /\ Len(regLog) < MaxRegs
    /\ IF name \in DOMAIN icons_
       THEN /\ heap' = [heap EXCEPT ![icons_[name]] = Icon(name, pathData)]
            /\ icons_' = icons_
       ELSE /\ heap' = Append(heap, Icon(name, pathData))
            /\ icons_' = MapAssign(icons_, name, Len(heap) + 1)
    /\ regLog' = Append(regLog, <<name, pathData>>)
    /\ last' = Call("registerIcon", <<name, pathData>>, "void")
    /\ UNCHANGED <<iconNames_, wrappers, written, theme, callerConfig, ignored>>

IconRegistry_registerIcon(name, pathData) ==
    /\ Len(regLog) < MaxRegs
    /\ heap' = Append(heap, Icon(name, pathData))
    /\ icons_' = MapAssign(icons_, name, Len(heap) + 1)
    /\ regLog' = Append(regLog, <<name, pathData>>)
    /\ last' = Call("registerIcon", <<name, pathData>>, "void")
    /\ UNCHANGED <<iconNames_, wrappers, written, theme, callerConfig, ignored>>

IconRegistry_getIcon(name) ==
    /\ last' = Call("getIcon", <<name>>, getIcon(name))
    /\ UNCHANGED <<heap, icons_, regLog, iconNames_, wrappers, written, theme, callerConfig, ignored>>

IconRegistry_generateSVG(name, config) ==
    /\ last' = Call("generateSVG", <<name, config>>, generateSVG(name, config))
    /\ UNCHANGED <<heap, icons_, regLog, iconNames_, wrappers, written, theme, callerConfig, ignored>>

-----------------------------------------------------------------------------
(* class IconWrapper: the static batch render *)

\* A batch render that drops the names it cannot find.
RECURSIVE renderLoopSkipping(_, _, _, _)
renderLoopSkipping(iconNames, config, i, results) ==
    IF i > Len(iconNames) THEN results
    ELSE LET icon == getIcon(iconNames[i])
         IN  renderLoopSkipping(iconNames, config, i + 1,
                 IF icon # null THEN Append(results, toSVG(heap[icon], config))
                 ELSE results)

renderMultipleSkipping(iconNames, config) == renderLoopSkipping(iconNames, config, 1, <<>>)

\* the range-for over iconNames, pushing one result per name
RECURSIVE renderLoop(_, _, _, _)
renderLoop(iconNames, config, i, results) ==
    IF i > Len(iconNames) THEN results
    ELSE LET icon == getIcon(iconNames[i])
         IN  renderLoop(iconNames, config, i + 1,
                 IF icon # null THEN Append(results, toSVG(heap[icon], config))
                 ELSE Append(results, ""))

renderMultiple(iconNames, config) == renderLoop(iconNames, config, 1, <<>>)

IconWrapper_renderMultiple(iconNames, config) ==
    /\ last' = Call("renderMultiple", <<iconNames, config>>, renderMultiple(iconNames, config))
    /\ UNCHANGED <<heap, icons_, regLog, iconNames_, wrappers, written, theme, callerConfig, ignored>>

-----------------------------------------------------------------------------
(* class IconWrapper: one object per id in WIds *)

NoWrapper == [alive |-> FALSE, icon_ |-> null, config_ |-> IconConfig]

Unwritten == [stroke |-> NoCall, fill |-> NoCall]

Wrote(c) == [called |-> TRUE, arg |-> c]

Threw(op, args, what) == [op |-> op, args |-> args, ret |-> what, threw |-> TRUE]

\* A name constructor without the null check: binds whatever getIcon returns.
IconWrapper_byNameUnchecked(i, iconName) ==
    /\ ~wrappers[i].alive
    /\ wrappers' = [wrappers EXCEPT ![i] =
                       [alive |-> TRUE, icon_ |-> getIcon(iconName), config_ |-> IconConfig]]
    /\ written' = [written EXCEPT ![i] = Unwritten]
    /\ last' = Call("IconWrapper", <<i, iconName>>, "void")
    /\ UNCHANGED <<heap, icons_, regLog, iconNames_, theme, callerConfig, ignored>>

\* IconWrapper(const std::string&): look the name up, throw if absent
IconWrapper_byName(i, iconName) ==
    /\ ~wrappers[i].alive
    /\ LET icon == getIcon(iconName)
       IN  IF icon = null
           THEN /\ last' = Threw("IconWrapper", <<i, iconName>>, "Icon not found: " \o iconName)
                /\ UNCHANGED <<wrappers, written>>
           ELSE /\ wrappers' = [wrappers EXCEPT ![i] =
                                   [alive |-> TRUE, icon_ |-> icon, config_ |-> IconConfig]]
                /\ written' = [written EXCEPT ![i] = Unwritten]
                /\ last' = Call("IconWrapper", <<i, iconName>>, "void")
    /\ UNCHANGED <<heap, icons_, regLog, iconNames_, theme, callerConfig, ignored>>

\* IconWrapper(std::shared_ptr<Icon>): bind the handle, throw if it is null
IconWrapper_byHandle(i, icon) ==
    /\ ~wrappers[i].alive
    /\ IF icon = null
       THEN /\ last' = Threw("IconWrapper(icon)", <<i, icon>>, "Invalid icon provided")
            /\ UNCHANGED <<wrappers, written>>
       ELSE /\ wrappers' = [wrappers EXCEPT ![i] =
                               [alive |-> TRUE, icon_ |-> icon, config_ |-> IconConfig]]
            /\ written' = [written EXCEPT ![i] = Unwritten]
            /\ last' = Call("IconWrapper(icon)", <<i, icon>>, "void")
    /\ UNCHANGED <<heap, icons_, regLog, iconNames_, theme, callerConfig, ignored>>

\* A square resize that forgets the height.
sizeWidthOnly(config, width, height) == [config EXCEPT !.width = width]

\* size(int, int) on the wrapper's configuration
size(config, width, height) == [config EXCEPT !.width = width, !.height = height]

\* A fluent setter: replaces wrapper i's configuration and returns *this.
Fluent(i, op, args, config) ==
    /\ wrappers[i].alive
    /\ wrappers' = [wrappers EXCEPT ![i].config_ = config]
    /\ last' = Call(op, <<i>> \o args, "*this")
    /\ UNCHANGED <<heap, icons_, regLog, iconNames_, theme, callerConfig, ignored>>

IconWrapper_size(i, width, height) ==
    /\ Fluent(i, "size", <<width, height>>, size(wrappers[i].config_, width, height))
    /\ UNCHANGED written

\* size(int): delegates to size(size, size)
IconWrapper_sizeSquare(i, s) ==
    /\ Fluent(i, "size", <<s>>, size(wrappers[i].config_, s, s))
    /\ UNCHANGED written

IconWrapper_stroke(i, c) ==
    /\ Fluent(i, "stroke", <<c>>, [wrappers[i].config_ EXCEPT !.stroke = c])
    /\ written' = [written EXCEPT ![i].stroke = Wrote(c)]

IconWrapper_strokeWidth(i, width) ==
    /\ Fluent(i, "strokeWidth", <<width>>, [wrappers[i].config_ EXCEPT !.strokeWidth = width])
    /\ UNCHANGED written

IconWrapper_fill(i, c) ==
    /\ Fluent(i, "fill", <<c>>, [wrappers[i].config_ EXCEPT !.fill = c])
    /\ written' = [written EXCEPT ![i].fill = Wrote(c)]

IconWrapper_className(i, cls) ==
    /\ Fluent(i, "className", <<cls>>, [wrappers[i].config_ EXCEPT !.className = cls])
    /\ UNCHANGED written

IconWrapper_style(i, styleStr) ==
    /\ Fluent(i, "style", <<styleStr>>, [wrappers[i].config_ EXCEPT !.style = styleStr])
    /\ UNCHANGED written

\* A colour setter that behaves like IconConfig::setColor: stroke only.
colorStrokeOnly(config, c) == [config EXCEPT !.color = c, !.stroke = c]

\* IconWrapper::color on the wrapper's configuration
color(config, c) == [config EXCEPT !.color = c, !.stroke = c, !.fill = c]

IconWrapper_color(i, c) ==
    /\ Fluent(i, "color", <<c>>, color(wrappers[i].config_, c))
    /\ written' = [written EXCEPT ![i] = [stroke |-> Wrote(c), fill |-> Wrote(c)]]

IconWrapper_reset(i) ==
    /\ Fluent(i, "reset", <<>>, IconConfig)
    /\ written' = [written EXCEPT ![i] = Unwritten]

\* render() of wrapper object w
render(w) == IF w.icon_ = null THEN "" ELSE toSVG(heap[w.icon_], w.config_)

IconWrapper_render(i) ==
    /\ wrappers[i].alive
    /\ last' = Call("render", <<i>>, render(wrappers[i]))
    /\ UNCHANGED <<heap, icons_, regLog, iconNames_, wrappers, written, theme, callerConfig, ignored>>

\* A clone that forgets to copy the configuration.
cloneDefaultConfig(w) == [alive |-> TRUE, icon_ |-> w.icon_, config_ |-> IconConfig]

\* clone() of wrapper object w: cloned(icon_), then cloned.config_ = config_
clone(w) == [alive |-> TRUE, icon_ |-> w.icon_, config_ |-> w.config_]

\* wrapper j is the object clone() of wrapper i returns
IconWrapper_clone(i, j) ==
    /\ wrappers[i].alive
    /\ ~wrappers[j].alive
    /\ wrappers' = [wrappers EXCEPT ![j] = clone(wrappers[i])]
    /\ written' = [written EXCEPT ![j] = written[i]]
    /\ last' = Call("clone", <<i, j>>, "IconWrapper")
    /\ UNCHANGED <<heap, icons_, regLog, iconNames_, theme, callerConfig, ignored>>

-----------------------------------------------------------------------------
(* class IconCollection *)

\* An insertion that does not consult the registry.
addIconUnchecked(names, iconName) == Append(names, iconName)

\* addIcon on the member list `names`: push_back only if registry.hasIcon
addIcon(names, iconName) ==
    IF hasIcon(iconName) THEN Append(names, iconName) ELSE names

\* the range-for of addIcons, one addIcon per name
RECURSIVE addIcons(_, _, _)
addIcons(names, iconNames, i) ==
    IF i > Len(iconNames) THEN names
    ELSE addIcons(addIcon(names, iconNames[i]), iconNames, i + 1)

\* erase(remove(begin, end, iconName), end): drops every occurrence, keeps order
removeIcon(names, iconName) == SelectSeq(names, LAMBDA x : x # iconName)

\* History: the names of a call that no registerIcon call had named by then.
Skipped(iconNames) ==
    {iconNames[k] : k \in DOMAIN iconNames} \ {regLog[k][1] : k \in DOMAIN regLog}

IconCollection_addIcon(iconName) ==
    /\ Len(iconNames_) < MaxColl
    /\ iconNames_' = addIcon(iconNames_, iconName)
    /\ ignored' = (ignored \ {iconName}) \cup Skipped(<<iconName>>)
    /\ last' = Call("addIcon", <<iconName>>, "void")
    /\ UNCHANGED <<heap, icons_, regLog, wrappers, written, theme, callerConfig>>

IconCollection_addIcons(iconNames) ==
    /\ Len(iconNames_) + Len(iconNames) <= MaxColl
    /\ iconNames_' = addIcons(iconNames_, iconNames, 1)
    /\ ignored' = (ignored \ {iconNames[k] : k \in DOMAIN iconNames}) \cup Skipped(iconNames)
    /\ last' = Call("addIcons", <<iconNames>>, "void")
    /\ UNCHANGED <<heap, icons_, regLog, wrappers, written, theme, callerConfig>>

IconCollection_removeIcon(iconName) ==
    /\ iconNames_' = removeIcon(iconNames_, iconName)
    /\ last' = Call("removeIcon", <<iconName>>, "void")
    /\ UNCHANGED <<heap, icons_, regLog, wrappers, written, theme, callerConfig, ignored>>

IconCollection_clear ==
    /\ iconNames_' = <<>>
    /\ last' = Call("clear", <<>>, "void")
    /\ UNCHANGED <<heap, icons_, regLog, wrappers, written, theme, callerConfig, ignored>>

IconCollection_renderAll(config) ==
    /\ last' = Call("renderAll", <<config>>, renderMultiple(iconNames_, config))
    /\ UNCHANGED <<heap, icons_, regLog, iconNames_, wrappers, written, theme, callerConfig, ignored>>

-----------------------------------------------------------------------------
(* class IconTheme *)

IconTheme(name) == [name_ |-> name, themeConfig_ |-> IconConfig]

setDefaultStroke(t, c) == [t EXCEPT !.themeConfig_.stroke = c]

setDefaultFill(t, c) == [t EXCEPT !.themeConfig_.fill = c]

setDefaultStrokeWidth(t, width) == [t EXCEPT !.themeConfig_.strokeWidth = width]

setDefaultSize(t, s) == [t EXCEPT !.themeConfig_ = setSize(@, s)]

setDefaultColor(t, c) == [t EXCEPT !.themeConfig_ = setColor(@, c)]

\* A merge that never themes the stroke width.
applyThemeNoStrokeWidth(t, baseConfig) ==
    LET tc == t.themeConfig_
        r1 == IF baseConfig.stroke = "currentColor"
              THEN [baseConfig EXCEPT !.stroke = IF tc.stroke = "" THEN "currentColor" ELSE tc.stroke]
              ELSE baseConfig
        r2 == IF baseConfig.fill = "none"
              THEN [r1 EXCEPT !.fill = IF tc.fill = "" THEN "none" ELSE tc.fill]
              ELSE r1
        r4 == IF baseConfig.width = 24
              THEN [r2 EXCEPT !.width = IF tc.width = 24 THEN 24 ELSE tc.width]
              ELSE r2
    IN  IF baseConfig.height = 24
        THEN [r4 EXCEPT !.height = IF tc.height = 24 THEN 24 ELSE tc.height]
        ELSE r4

\* A merge that overrides the five fields whatever the base holds.
applyThemeAlways(t, baseConfig) ==
    LET tc == t.themeConfig_
    IN  [baseConfig EXCEPT
            !.stroke = IF tc.stroke = "" THEN "currentColor" ELSE tc.stroke,
            !.fill = IF tc.fill = "" THEN "none" ELSE tc.fill,
            !.strokeWidth = tc.strokeWidth,
            !.width = tc.width,
            !.height = tc.height]

\* result = baseConfig, then the five guarded assignments in source order
applyTheme(t, baseConfig) ==
    LET tc == t.themeConfig_
        r1 == IF baseConfig.stroke = "currentColor"
              THEN [baseConfig EXCEPT !.stroke = IF tc.stroke = "" THEN "currentColor" ELSE tc.stroke]
              ELSE baseConfig
        r2 == IF baseConfig.fill = "none"
              THEN [r1 EXCEPT !.fill = IF tc.fill = "" THEN "none" ELSE tc.fill]
              ELSE r1
        r3 == IF baseConfig.strokeWidth = 2
              THEN [r2 EXCEPT !.strokeWidth = IF tc.strokeWidth = 2 THEN 2 ELSE tc.strokeWidth]
              ELSE r2
        r4 == IF baseConfig.width = 24
              THEN [r3 EXCEPT !.width = IF tc.width = 24 THEN 24 ELSE tc.width]
              ELSE r3
    IN  IF baseConfig.height = 24
        THEN [r4 EXCEPT !.height = IF tc.height = 24 THEN 24 ELSE tc.height]
        ELSE r4

light ==
    setDefaultSize(setDefaultStrokeWidth(setDefaultFill(
        setDefaultStroke(IconTheme("light"), "#000000"), "none"), 2), 24)

\* A dark preset carrying the light preset's stroke.
darkWithLightStroke ==
    setDefaultSize(setDefaultStrokeWidth(setDefaultFill(
        setDefaultStroke(IconTheme("dark"), "#000000"), "none"), 2), 24)

dark ==
    setDefaultSize(setDefaultStrokeWidth(setDefaultFill(
        setDefaultStroke(IconTheme("dark"), "#ffffff"), "none"), 2), 24)

colorful ==
    setDefaultSize(setDefaultStrokeWidth(setDefaultFill(
        setDefaultStroke(IconTheme("colorful"), "#3b82f6"), "#dbeafe"), 2), 24)

\* What a call on the theme leaves alone, and its record in last.
ThemeCall(op, args) ==
    /\ last' = Call(op, args, "void")
    /\ UNCHANGED <<heap, icons_, regLog, iconNames_, wrappers, written, callerConfig, ignored>>

IconTheme_construct ==
    /\ theme' = IconTheme("custom")
    /\ ThemeCall("IconTheme", <<"custom">>)

IconTheme_light ==
    /\ theme' = light
    /\ ThemeCall("light", <<>>)

IconTheme_dark ==
    /\ theme' = dark
    /\ ThemeCall("dark", <<>>)

IconTheme_colorful ==
    /\ theme' = colorful
    /\ ThemeCall("colorful", <<>>)

IconTheme_setDefaultStroke(c) ==
    /\ theme' = setDefaultStroke(theme, c)
    /\ ThemeCall("setDefaultStroke", <<c>>)

IconTheme_setDefaultFill(c) ==
    /\ theme' = setDefaultFill(theme, c)
    /\ ThemeCall("setDefaultFill", <<c>>)

IconTheme_setDefaultStrokeWidth(width) ==
    /\ theme' = setDefaultStrokeWidth(theme, width)
    /\ ThemeCall("setDefaultStrokeWidth", <<width>>)

IconTheme_setDefaultSize(s) ==
    /\ theme' = setDefaultSize(theme, s)
    /\ ThemeCall("setDefaultSize", <<s>>)

IconTheme_setDefaultColor(c) ==
    /\ theme' = setDefaultColor(theme, c)
    /\ ThemeCall("setDefaultColor", <<c>>)

IconTheme_applyTheme(baseConfig) ==
    /\ last' = Call("applyTheme", <<baseConfig>>, applyTheme(theme, baseConfig))
    /\ UNCHANGED <<heap, icons_, regLog, iconNames_, wrappers, written, theme, callerConfig, ignored>>

-----------------------------------------------------------------------------
(* struct IconConfig: the member functions called on a caller's struct *)

IconConfig_setSize(s) ==
    /\ callerConfig' = setSize(callerConfig, s)
    /\ last' = Call("setSize", <<s>>, "void")
    /\ UNCHANGED <<heap, icons_, regLog, iconNames_, wrappers, written, theme, ignored>>

IconConfig_setColor(c) ==
    /\ callerConfig' = setColor(callerConfig, c)
    /\ last' = Call("setColor", <<c>>, "void")
    /\ UNCHANGED <<heap, icons_, regLog, iconNames_, wrappers, written, theme, ignored>>

-----------------------------------------------------------------------------
(* Initial state: an empty registry, no wrapper constructed, an empty        *)
(* collection and a freshly constructed theme.                               *)

Init ==
    /\ heap = <<>>
    /\ icons_ = <<>>
    /\ regLog = <<>>
    /\ iconNames_ = <<>>
    /\ wrappers = [i \in WIds |-> NoWrapper]
    /\ written = [i \in WIds |-> Unwritten]
    /\ theme = [name_ |-> "custom", themeConfig_ |-> IconConfig]
    /\ callerConfig = IconConfig
    /\ ignored = {}
    /\ last = Call("init", <<>>, "void")

NextRegistry ==
    \/ \E n \in Names, p \in PathDatas : IconRegistry_registerIcon(n, p)
    \/ \E n \in Names : IconRegistry_getIcon(n)
    \/ \E n \in Names, c \in Configs : IconRegistry_generateSVG(n, c)
    \/ \E ns \in SeqsUpTo(Names, MaxNames), c \in BatchConfigs :
           IconWrapper_renderMultiple(ns, c)

SpecRegistry == Init /\ [][NextRegistry]_vars

\* The registry as main.cc uses it: the icons are registered before any
\* wrapper is built.
InitWrapper ==
    /\ heap = <<Icon("home", "<path d=\"M3 9l9-7\"/>")>>
    /\ icons_ = MapAssign(<<>>, "home", 1)
    /\ regLog = <<<<"home", "<path d=\"M3 9l9-7\"/>">>>>
    /\ iconNames_ = <<>>
    /\ wrappers = [i \in WIds |-> NoWrapper]
    /\ written = [i \in WIds |-> Unwritten]
    /\ theme = [name_ |-> "custom", themeConfig_ |-> IconConfig]
    /\ callerConfig = IconConfig
    /\ ignored = {}
    /\ last = Call("registerIcon", <<"home", "<path d=\"M3 9l9-7\"/>">>, "void")

NextWrapper ==
    \/ \E n \in Names : IconWrapper_byName(1, n)
    \/ \E w \in WSizes, h \in WSizes : IconWrapper_size(1, w, h)
    \/ \E s \in WSizes : IconWrapper_sizeSquare(1, s)
    \/ \E c \in WColors : IconWrapper_stroke(1, c)
    \/ \E c \in WColors : IconWrapper_fill(1, c)
    \/ \E c \in WColors : IconWrapper_color(1, c)
    \/ \E k \in WStrokeWidths : IconWrapper_strokeWidth(1, k)
    \/ \E c \in Classes : IconWrapper_className(1, c)
    \/ \E y \in Styles : IconWrapper_style(1, y)
    \/ IconWrapper_reset(1)
    \/ IconWrapper_render(1)

SpecWrapper == InitWrapper /\ [][NextWrapper]_vars

\* Registration interleaved with wrapper construction, cloning and rendering.
NextRebind ==
    \/ \E n \in Names, p \in PathDatas : IconRegistry_registerIcon(n, p)
    \/ \E i \in WIds, n \in Names : IconWrapper_byName(i, n)
    \/ \E i \in WIds, h \in 0..Len(heap) : IconWrapper_byHandle(i, h)
    \/ \E i \in WIds, j \in WIds : IconWrapper_clone(i, j)
    \/ \E i \in WIds : IconWrapper_render(i)
    \/ \E n \in Names : IconRegistry_getIcon(n)
    \/ \E n \in Names : IconRegistry_generateSVG(n, IconConfig)

SpecRebind == Init /\ [][NextRebind]_vars

\* One wrapper constructed by name, its clone, and calls on either of them.
NextClone ==
    \/ \E n \in Names : IconWrapper_byName(1, n)
    \/ IconWrapper_clone(1, 2)
    \/ \E i \in WIds : IconWrapper_size(i, 16, 16)
    \/ \E i \in WIds : IconWrapper_sizeSquare(i, 16)
    \/ \E i \in WIds : IconWrapper_stroke(i, "#ff0000")
    \/ \E i \in WIds : IconWrapper_fill(i, "#ff0000")
    \/ \E i \in WIds : IconWrapper_color(i, "#ff0000")
    \/ \E i \in WIds : IconWrapper_strokeWidth(i, 3)
    \/ \E i \in WIds : IconWrapper_className(i, "icon")
    \/ \E i \in WIds : IconWrapper_style(i, "opacity:0.5")
    \/ \E i \in WIds : IconWrapper_reset(i)
    \/ \E i \in WIds : IconWrapper_render(i)

SpecClone == InitWrapper /\ [][NextClone]_vars

NextConfig ==
    \/ \E s \in ConfigSizes : IconConfig_setSize(s)
    \/ \E c \in ConfigColors : IconConfig_setColor(c)

SpecConfig == Init /\ [][NextConfig]_vars

NextTheme ==
    \/ IconTheme_construct
    \/ IconTheme_light
    \/ IconTheme_dark
    \/ IconTheme_colorful
    \/ \E c \in ThemeColors : IconTheme_setDefaultStroke(c)
    \/ \E c \in ThemeColors : IconTheme_setDefaultFill(c)
    \/ \E k \in ThemeStrokeWidths : IconTheme_setDefaultStrokeWidth(k)
    \/ \E z \in ThemeSizes : IconTheme_setDefaultSize(z)
    \/ \E c \in ThemeColors : IconTheme_setDefaultColor(c)
    \/ \E b \in BaseConfigs : IconTheme_applyTheme(b)

SpecTheme == Init /\ [][NextTheme]_vars

NextCollection ==
    \/ \E n \in Names, p \in PathDatas : IconRegistry_registerIcon(n, p)
    \/ \E n \in Names : IconCollection_addIcon(n)
    \/ \E ns \in SeqsUpTo(Names, MaxNames) : IconCollection_addIcons(ns)
    \/ \E n \in Names : IconCollection_removeIcon(n)
    \/ IconCollection_clear
    \/ \E c \in BatchConfigs : IconCollection_renderAll(c)

SpecCollection == Init /\ [][NextCollection]_vars

\* Every operation together.  The registry, the collection, the wrappers and
\* the theme are checked under the specifications above, one per component
\* and the registry operations it calls.
Next == NextRegistry \/ NextCollection \/ NextWrapper \/ NextRebind \/ NextClone \/ NextConfig \/ NextTheme

Spec == Init /\ [][Next]_vars

-----------------------------------------------------------------------------
(* Reading the emitted markup back *)

StartsWith(s, prefix) == Len(s) >= Len(prefix) /\ SubSeq(s, 1, Len(prefix)) = prefix

\* The least element of a non-empty set of integers, 0 for the empty set.
MinOrZero(S) == IF S = {} THEN 0 ELSE CHOOSE k \in S : \A j \in S : k <= j

\* The first position at or after i where sub occurs in s, or 0.
Find(s, sub, i) ==
    CHOOSE r \in {MinOrZero(hits) :
                   hits \in {{k \in i..(Len(s) - Len(sub) + 1) :
                                 SubSeq(s, k, k + Len(sub) - 1) = sub}}} : TRUE

Contains(s, sub) == Find(s, sub, 1) # 0

NoAttr == "<absent>"

\* The text of s from position from up to the quote at position to.
Quoted(s, from, to) == IF to = 0 THEN NoAttr ELSE SubSeq(s, from, to - 1)

\* The value of attribute attr in the markup s: the text between attr=" and
\* the next quote; NoAttr when the attribute is not emitted.
AttrValue(s, attr) ==
    CHOOSE r \in {IF at = 0 THEN NoAttr
                  ELSE Quoted(s, at + Len(attr) + 3, Find(s, "\"", at + Len(attr) + 3)) :
                  at \in {Find(s, " " \o attr \o "=\"", 1)}} : TRUE

\* The names registerIcon has been called with, and the data of the latest call.
RegisteredNames == {regLog[i][1] : i \in DOMAIN regLog}

LatestData(n) ==
    LET k == CHOOSE i \in DOMAIN regLog :
                 regLog[i][1] = n /\ \A j \in DOMAIN regLog : regLog[j][1] = n => j <= i
    IN  regLog[k][2]

-----------------------------------------------------------------------------
(* Claims *)

\* C1: generateSVG of a registered name, under any configuration, begins with
\* <svg and carries viewBox="0 0 24 24", whatever width and height are asked.
C1_ViewBoxFixed ==
    (last.op = "generateSVG" /\ last.args[1] \in RegisteredNames) =>
        /\ StartsWith(last.ret, "<svg")
        /\ Contains(last.ret, " viewBox=\"0 0 24 24\"")
        /\ AttrValue(last.ret, "viewBox") = "0 0 24 24"

C1_Witness ==
    /\ last.op = "generateSVG"
    /\ last.args[1] \in RegisteredNames
    /\ last.args[2].width = 32 /\ last.args[2].height = 16
    /\ LatestData(last.args[1]) # ""

\* C2: generateSVG of a name that was never registered returns the empty
\* string, throws nothing and leaves the registry as it was; getIcon of such a
\* name returns the null handle.
C2_UnknownNameSoftFails ==
    [][/\ (last'.op = "generateSVG" /\ last'.args[1] \notin RegisteredNames) =>
            (last'.ret = "" /\ ~last'.threw /\ icons_' = icons_ /\ heap' = heap)
       /\ (last'.op = "getIcon" /\ last'.args[1] \notin RegisteredNames) =>
            (last'.ret = null /\ ~last'.threw /\ icons_' = icons_ /\ heap' = heap)]_vars

C2_Witness ==
    /\ last.op = "generateSVG"
    /\ last.args[1] \notin RegisteredNames
    /\ RegisteredNames # {}
    /\ last.ret = ""

\* C3: every registered name looks up to a non-null icon whose name is that
\* name and whose path data is exactly the data of the latest registerIcon
\* call for it.
C3_RegistryRoundTrip ==
    \A n \in RegisteredNames :
        /\ getIcon(n) # null
        /\ getPathData(heap[getIcon(n)]) = LatestData(n)
        /\ getName(heap[getIcon(n)]) = n

C3_Witness ==
    \E i, j \in DOMAIN regLog :
        /\ i < j
        /\ regLog[i][1] = regLog[j][1]
        /\ regLog[i][2] # regLog[j][2]
        /\ getPathData(heap[getIcon(regLog[j][1])]) = regLog[j][2]
        /\ last.op = "getIcon" /\ last.args[1] = regLog[j][1] /\ last.ret # null

\* C4: renderMultiple returns one result per input name, in input order: the
\* generateSVG text for a registered name, the empty string for an unknown one.
C4_BatchParallel ==
    last.op = "renderMultiple" =>
        LET names == last.args[1]
            results == last.ret
        IN  /\ ~last.threw
            /\ Len(results) = Len(names)
            /\ \A i \in DOMAIN names :
                   IF names[i] \in RegisteredNames
                   THEN results[i] = generateSVG(names[i], last.args[2])
                        /\ results[i] # ""
                   ELSE results[i] = ""

C4_Witness ==
    /\ last.op = "renderMultiple"
    /\ last.args[1] = <<"home", "ghost-icon">>
    /\ "home" \in RegisteredNames /\ "ghost-icon" \notin RegisteredNames
    /\ last.ret[1] # "" /\ last.ret[2] = ""

\* C5: addIcon of a name that is not registered changes nothing and signals
\* nothing; addIcon of a registered name appends exactly that name at the end.
C5_AddIconChecksRegistry ==
    [][last'.op = "addIcon" =>
         LET n == last'.args[1]
             k == Len(iconNames_)
         IN  /\ ~last'.threw
             /\ IF n \in RegisteredNames
                THEN /\ Len(iconNames_') = k + 1
                     /\ SubSeq(iconNames_', 1, k) = iconNames_
                     /\ iconNames_'[k + 1] = n
                ELSE iconNames_' = iconNames_]_vars

C5_Witness ==
    /\ last.op = "addIcon"
    /\ last.args[1] \notin RegisteredNames
    /\ RegisteredNames # {}
    /\ Len(iconNames_) = 1

\* The markup s with its width and height attributes cut out: what precedes
\* width=" and what follows the height attribute (from viewBox= to the end,
\* the remaining attributes, the path data and the closing tag).
BeforeSize(s) == SubSeq(s, 1, Find(s, " width=\"", 1) - 1)

AfterSize(s) == SubSeq(s, Find(s, " viewBox=\"", 1), Len(s))

SizeAttrs(w, h) == " width=\"" \o w \o "\" height=\"" \o h \o "\""

\* C6: whatever the wrapper's configuration, after size(s) the rendered width
\* and height are both s, and the rest of the markup (every other attribute,
\* the path data) is what render() gave before the call.
C6_SquareSize ==
    [][(last'.op = "size" /\ Len(last'.args) = 2) =>
         \A before \in {render(wrappers[last'.args[1]])},
            after \in {render(wrappers'[last'.args[1]])},
            s \in {ToString(last'.args[2])} :
             /\ AttrValue(after, "width") = s
             /\ AttrValue(after, "height") = s
             /\ after = BeforeSize(before) \o SizeAttrs(s, s) \o AfterSize(before)]_vars

C6_Witness ==
    /\ last.op = "size" /\ Len(last.args) = 2
    /\ last.args[2] = 16
    /\ wrappers[1].config_.width = 16 /\ wrappers[1].config_.height = 16
    /\ wrappers[1].config_.className = "icon"
    /\ wrappers[1].config_.stroke = "#ff0000"
    /\ wrappers[1].config_.strokeWidth = 3

\* C7: the rendered stroke is the argument of the latest stroke() or color()
\* call and the rendered fill that of the latest fill() or color() call; right
\* after color(c) both are c.
C7_ColourLastWriterWins ==
    \A i \in WIds :
        wrappers[i].alive =>
            LET out == render(wrappers[i])
            IN  /\ written[i].stroke.called =>
                       AttrValue(out, "stroke") = written[i].stroke.arg
                /\ written[i].fill.called =>
                       AttrValue(out, "fill") = written[i].fill.arg
                /\ (last.op = "color" /\ last.args[1] = i) =>
                       /\ AttrValue(out, "stroke") = last.args[2]
                       /\ AttrValue(out, "fill") = last.args[2]

C7_Witness ==
    /\ last.op = "stroke" /\ last.args = <<1, "none">>
    /\ written[1].fill = Wrote("#ff0000")
    /\ wrappers[1].config_.color = "#ff0000"
    /\ AttrValue(render(wrappers[1]), "stroke") = "none"
    /\ AttrValue(render(wrappers[1]), "fill") = "#ff0000"

\* C8: the dark preset applied to an all-default configuration gives stroke
\* #ffffff, fill none, stroke width 2 and size 24 (width 24, height 24).
C8_DarkOnDefaults ==
    (last.op = "applyTheme" /\ last.args[1] = IconConfig /\ theme = dark) =>
        /\ last.ret.stroke = "#ffffff"
        /\ last.ret.fill = "none"
        /\ last.ret.strokeWidth = 2
        /\ last.ret.size = 24 /\ last.ret.width = 24 /\ last.ret.height = 24

C8_Witness ==
    /\ last.op = "applyTheme"
    /\ last.args[1] = IconConfig
    /\ theme.name_ = "dark" /\ theme = dark
    /\ last.ret.stroke = "#ffffff"

ColourFields == {"stroke", "fill"}

NumberFields == {"strokeWidth", "width", "height"}

ThemedFields == ColourFields \cup NumberFields

UnthemedFields == {"className", "style", "strokeLinecap", "strokeLinejoin", "size", "color"}

GlobalDefault ==
    [stroke |-> "currentColor", fill |-> "none", strokeWidth |-> 2,
     width |-> 24, height |-> 24]

\* C9 as stated: a themed field of the base that holds its global default
\* comes out as the theme's stored value, whatever that value is.
C9_AsStated ==
    last.op = "applyTheme" =>
        \A f \in ThemedFields :
            last.args[1][f] = GlobalDefault[f] => last.ret[f] = theme.themeConfig_[f]

\* C9: a themed field of the base that holds its global default comes out as
\* the theme's stored value, except that a stored stroke or fill that is the
\* empty string leaves the global default in place.
C9_ThemeMerge ==
    last.op = "applyTheme" =>
        /\ \A f \in NumberFields :
               last.args[1][f] = GlobalDefault[f] => last.ret[f] = theme.themeConfig_[f]
        /\ \A f \in ColourFields :
               last.args[1][f] = GlobalDefault[f] =>
                   last.ret[f] = IF theme.themeConfig_[f] = ""
                                 THEN GlobalDefault[f] ELSE theme.themeConfig_[f]

C9_Witness ==
    /\ last.op = "applyTheme"
    /\ last.args[1] = IconConfig
    /\ theme.themeConfig_.stroke = "" /\ theme.themeConfig_.fill = "#ffffff"
    /\ theme.themeConfig_.strokeWidth = 3 /\ theme.themeConfig_.width = 32
    /\ last.ret.stroke = "currentColor" /\ last.ret.fill = "#ffffff"
    /\ last.ret.strokeWidth = 3 /\ last.ret.width = 32 /\ last.ret.height = 32

\* C10: applyTheme keeps every themed field of the base that differs from its
\* global default, keeps className, style, strokeLinecap, strokeLinejoin, size
\* and color always, and leaves the theme as it was.
C10_ThemeFrame ==
    [][last'.op = "applyTheme" =>
         /\ \A f \in ThemedFields :
                last'.args[1][f] # GlobalDefault[f] => last'.ret[f] = last'.args[1][f]
         /\ \A f \in UnthemedFields : last'.ret[f] = last'.args[1][f]
         /\ DOMAIN last'.ret = DOMAIN last'.args[1]
         /\ theme' = theme
         /\ ~last'.threw]_vars

C10_Witness ==
    /\ last.op = "applyTheme"
    /\ last.args[1].stroke = "#ff0000" /\ last.args[1].className = "icon"
    /\ last.args[1].width = 48 /\ last.args[1].height = 24
    /\ theme.themeConfig_.stroke = "#ffffff" /\ theme.themeConfig_.height = 32
    /\ last.ret.stroke = "#ff0000" /\ last.ret.width = 48 /\ last.ret.height = 32
    /\ last.ret.className = "icon"

\* C11: constructing a wrapper from an unregistered name or from a null handle
\* throws with a message, builds no wrapper and leaves the registry alone;
\* from a registered name or a non-null handle it succeeds with the default
\* configuration.  So every wrapper is bound to an icon and never renders "".
C11_Bound ==
    \A i \in WIds :
        wrappers[i].alive =>
            /\ wrappers[i].icon_ # null
            /\ wrappers[i].icon_ \in DOMAIN heap
            /\ render(wrappers[i]) # ""
            /\ (last.op = "render" /\ last.args[1] = i) => StartsWith(last.ret, "<svg")

C11_ByName ==
    last'.op = "IconWrapper" =>
        IF last'.args[2] \notin RegisteredNames
        THEN /\ last'.threw
             /\ last'.ret = "Icon not found: " \o last'.args[2]
             /\ wrappers' = wrappers /\ icons_' = icons_ /\ heap' = heap
        ELSE /\ ~last'.threw
             /\ wrappers'[last'.args[1]].alive
             /\ wrappers'[last'.args[1]].icon_ # null
             /\ wrappers'[last'.args[1]].config_ = IconConfig

C11_ByHandle ==
    last'.op = "IconWrapper(icon)" =>
        IF last'.args[2] = 0
        THEN /\ last'.threw
             /\ last'.ret = "Invalid icon provided"
             /\ wrappers' = wrappers /\ icons_' = icons_ /\ heap' = heap
        ELSE /\ ~last'.threw
             /\ wrappers'[last'.args[1]].alive
             /\ wrappers'[last'.args[1]].icon_ = last'.args[2]
             /\ wrappers'[last'.args[1]].config_ = IconConfig

C11_ConstructionContract ==
    /\ []C11_Bound
    /\ [][C11_ByName /\ C11_ByHandle]_vars

C11_Witness ==
    /\ last.op = "IconWrapper" /\ last.threw
    /\ last.args = <<2, "ghost-icon">>
    /\ "home" \in RegisteredNames
    /\ wrappers[1].alive /\ ~wrappers[2].alive
    /\ render(wrappers[1]) # ""

\* C12: from a default IconConfig, under any sequence of setSize and setColor
\* calls, width = height = size and stroke = color; setSize(s) leaves all three
\* size fields at s and changes no other field, setColor(c) leaves stroke and
\* color at c and changes no other field; fill is touched by neither.
C12_Synchronised ==
    /\ callerConfig.width = callerConfig.size
    /\ callerConfig.height = callerConfig.size
    /\ callerConfig.stroke = callerConfig.color
    /\ last.op = "setSize" => callerConfig.size = last.args[1]
    /\ last.op = "setColor" => callerConfig.color = last.args[1]

C12_SizeFields == {"width", "height", "size"}

C12_Frame ==
    /\ last'.op = "setSize" =>
           \A f \in DOMAIN callerConfig \ C12_SizeFields : callerConfig'[f] = callerConfig[f]
    /\ last'.op = "setColor" =>
           \A f \in DOMAIN callerConfig \ {"stroke", "color"} : callerConfig'[f] = callerConfig[f]
    /\ callerConfig'.fill = callerConfig.fill

C12_ConfigSync == []C12_Synchronised /\ [][C12_Frame]_vars

C12_Witness ==
    /\ last.op = "setSize" /\ last.args[1] = 48
    /\ callerConfig.width = 48 /\ callerConfig.height = 48 /\ callerConfig.size = 48
    /\ callerConfig.color = "#ff0000" /\ callerConfig.stroke = "#ff0000"
    /\ callerConfig.fill = "none"

\* C13: registerIcon never changes a collection's membership list.  A name
\* whose latest addIcon / addIcons was skipped is not a member, whether or not
\* it has been registered since, and a name becomes a member only in an
\* addIcon / addIcons call that names it.
Members == {iconNames_[k] : k \in DOMAIN iconNames_}

C13_SkippedStayOut == \A n \in ignored : n \notin Members

C13_OnlyAddInserts ==
    /\ last'.op = "registerIcon" => iconNames_' = iconNames_
    /\ \A n \in Members' \ Members :
           \/ last'.op = "addIcon" /\ last'.args[1] = n
           \/ last'.op = "addIcons" /\ \E k \in DOMAIN last'.args[1] : last'.args[1][k] = n

C13_MembershipFixedAtInsertion == []C13_SkippedStayOut /\ [][C13_OnlyAddInserts]_vars

C13_Witness ==
    /\ last.op = "registerIcon" /\ last.args[1] = "ghost-icon"
    /\ "ghost-icon" \in ignored
    /\ Len(regLog) = 2 /\ regLog[1][1] = "home"
    /\ iconNames_ = <<"home">>

\* C15: under any interleaving of registerIcon with addIcon, addIcons,
\* removeIcon and clear, every member of the collection is registered; so
\* renderAll(config) returns one element per member, in membership order, each
\* the member's markup: none is empty and each begins with "<svg".
C15_MembersRegistered ==
    /\ \A k \in DOMAIN iconNames_ :
           /\ iconNames_[k] \in RegisteredNames
           /\ hasIcon(iconNames_[k])
    /\ last.op = "renderAll" =>
           /\ Len(last.ret) = Len(iconNames_)
           /\ \A k \in DOMAIN iconNames_ :
                  /\ last.ret[k] # ""
                  /\ StartsWith(last.ret[k], "<svg")
                  /\ last.ret[k] =
                         toSVG(Icon(iconNames_[k], LatestData(iconNames_[k])), last.args[1])

C15_Witness ==
    /\ last.op = "renderAll"
    /\ iconNames_ = <<"ghost-icon", "home">>
    /\ Len(regLog) = 3
    /\ Len(last.ret) = 2
    /\ last.ret[1] # last.ret[2]
    /\ StartsWith(last.ret[2], "<svg")

\* C14: right after clone() the clone has the source's configuration and both
\* render the same markup, and the source is as it was.  Afterwards a fluent
\* setter or reset() on either wrapper leaves the other's configuration and
\* rendering unchanged.
C14_Mutators == {"size", "stroke", "strokeWidth", "fill", "className", "style", "color", "reset"}

C14_CloneCopies ==
    last'.op = "clone" =>
        \A src \in {wrappers[last'.args[1]]}, src2 \in {wrappers'[last'.args[1]]},
           cl \in {wrappers'[last'.args[2]]} :
            /\ cl.alive
            /\ cl.config_ = src.config_
            /\ cl.icon_ = src.icon_
            /\ src2 = src
            /\ \A a \in {render(cl)}, b \in {render(src2)} : a = b /\ a # ""

C14_OtherUntouched ==
    last'.op \in C14_Mutators =>
        \A j \in WIds \ {last'.args[1]} :
            /\ wrappers'[j] = wrappers[j]
            /\ wrappers[j].alive =>
                   \A a \in {render(wrappers[j])}, b \in {render(wrappers'[j])} : a = b

C14_CloneIndependent == [][C14_CloneCopies /\ C14_OtherUntouched]_vars

C14_Witness ==
    /\ last.op = "reset" /\ last.args[1] = 2
    /\ wrappers[1].alive /\ wrappers[2].alive
    /\ wrappers[2].config_ = IconConfig
    /\ wrappers[1].config_.stroke = "#ff0000"
    /\ wrappers[1].config_.width = 16
    /\ written[2] = Unwritten /\ written[1] # Unwritten

\* C16: an Icon is never modified once it exists.  No step changes an Icon a
\* handle or a wrapper refers to, nor the handle a wrapper holds, so a wrapper
\* bound before registerIcon(n, Q) renders as before; a fresh getIcon(n),
\* generateSVG(n, ...) or IconWrapper(n) sees the latest data registered for n.
C16_FreshSeesLatest ==
    /\ (last.op = "getIcon" /\ last.ret # null) =>
           getPathData(heap[last.ret]) = LatestData(last.args[1])
    /\ (last.op = "generateSVG" /\ last.args[1] \in RegisteredNames) =>
           last.ret = toSVG(Icon(last.args[1], LatestData(last.args[1])), last.args[2])
    /\ (last.op = "IconWrapper" /\ ~last.threw) =>
           /\ getPathData(heap[wrappers[last.args[1]].icon_]) = LatestData(last.args[2])
           /\ getName(heap[wrappers[last.args[1]].icon_]) = last.args[2]
    /\ (last.op = "render") =>
           last.ret = toSVG(heap[wrappers[last.args[1]].icon_], wrappers[last.args[1]].config_)

C16_SharedIconsKept ==
    /\ \A h \in DOMAIN heap : h \in DOMAIN heap' /\ heap'[h] = heap[h]
    /\ \A i \in WIds :
           wrappers[i].alive =>
               /\ wrappers'[i].icon_ = wrappers[i].icon_
               /\ last'.op = "registerIcon" =>
                      \A a \in {render(wrappers[i])}, b \in {render(wrappers'[i])} : a = b

C16_IconsImmutable == []C16_FreshSeesLatest /\ [][C16_SharedIconsKept]_vars

C16_Witness ==
    /\ last.op = "render" /\ last.args[1] = 1
    /\ wrappers[1].alive /\ wrappers[2].alive
    /\ getName(heap[wrappers[1].icon_]) = "home"
    /\ getName(heap[wrappers[2].icon_]) = "home"
    /\ getPathData(heap[wrappers[1].icon_]) # LatestData("home")
    /\ getPathData(heap[wrappers[2].icon_]) = LatestData("home")
    /\ getIcon("home") = wrappers[2].icon_
    /\ last.ret # render(wrappers[2])

====
